---- MODULE Spec2Model ----
(***************************************************************************)
(* Escalation decision engine, escalate transition, agent-reply ingestion  *)
(* and conversation store of the Lumino customer-support assistant.        *)
(*                                                                         *)
(* Text is a sequence of one-character strings.  The store is the pair of  *)
(* tables conversations / messages plus the analytics table; the ticketing *)
(* system is the sequence tickets, the mail provider the bag emails.       *)
(***************************************************************************)
EXTENDS Integers, Sequences, FiniteSets, Bags, TLC

\* ------------------------------------------------------------------------
\* Bounds of the model
\* ------------------------------------------------------------------------
MaxPad == 1

MaxHist == 5

\* ------------------------------------------------------------------------
\* Text primitives (String.prototype methods used by lib/utils/escalation.ts)
\* ------------------------------------------------------------------------
UpperChars == <<"A","B","C","D","E","F","G","H","I","J","K","L","M",
                "N","O","P","Q","R","S","T","U","V","W","X","Y","Z">>

LowerChars == <<"a","b","c","d","e","f","g","h","i","j","k","l","m",
                "n","o","p","q","r","s","t","u","v","w","x","y","z">>

Whitespace == {" "}

Punctuation == {"?", ".", "!", ","}

toLowerChar(c) ==
  IF \E i \in 1..Len(UpperChars) : UpperChars[i] = c
  THEN LowerChars[CHOOSE i \in 1..Len(UpperChars) : UpperChars[i] = c]
  ELSE c

toUpperChar(c) ==
  IF \E i \in 1..Len(LowerChars) : LowerChars[i] = c
  THEN UpperChars[CHOOSE i \in 1..Len(LowerChars) : LowerChars[i] = c]
  ELSE c

toLowerCase(s) == [i \in 1..Len(s) |-> toLowerChar(s[i])]

toUpperCase(s) == [i \in 1..Len(s) |-> toUpperChar(s[i])]

includes(s, k) ==
  \E i \in 0..(Len(s) - Len(k)) : SubSeq(s, i + 1, i + Len(k)) = k

NotPunct(c) == c \notin Punctuation

stripPunct(s) == SelectSeq(s, NotPunct)

RECURSIVE trimStart(_)
trimStart(s) ==
  IF s # <<>> /\ Head(s) \in Whitespace THEN trimStart(Tail(s)) ELSE s

RECURSIVE trimEnd(_)
trimEnd(s) ==
  IF s # <<>> /\ s[Len(s)] \in Whitespace
  THEN trimEnd(SubSeq(s, 1, Len(s) - 1)) ELSE s

trim(s) == trimEnd(trimStart(s))

\* s.split(/\s+/): the pieces between maximal runs of whitespace; a leading
\* or trailing run yields an empty piece, and "" splits into [""].
RECURSIVE splitFrom(_, _, _)
splitFrom(s, i, cur) ==
  IF i > Len(s) THEN <<cur>>
  ELSE IF s[i] \in Whitespace
       THEN IF i > 1 /\ s[i - 1] \in Whitespace
            THEN splitFrom(s, i + 1, cur)
            ELSE <<cur>> \o splitFrom(s, i + 1, <<>>)
       ELSE splitFrom(s, i + 1, Append(cur, s[i]))

splitWs(s) == splitFrom(s, 1, <<>>)

LongWord(w) == Len(w) > 3

\* ------------------------------------------------------------------------
\* Trigger evaluators
\* ------------------------------------------------------------------------
keywords ==
   << <<"h","u","m","a","n">>,
      <<"a","g","e","n","t">>,
      <<"p","e","r","s","o","n">>,
      <<"r","e","p","r","e","s","e","n","t","a","t","i","v","e">>,
      <<"s","u","p","p","o","r","t">>,
      <<"s","p","e","a","k"," ","t","o"," ","s","o","m","e","o","n","e">>,
      <<"t","a","l","k"," ","t","o"," ","s","o","m","e","o","n","e">>,
      <<"r","e","a","l"," ","p","e","r","s","o","n">>,
      <<"c","u","s","t","o","m","e","r"," ","s","e","r","v","i","c","e">>,
      <<"e","s","c","a","l","a","t","e">>,
      <<"m","a","n","a","g","e","r">>,
      <<"s","u","p","e","r","v","i","s","o","r">>,
      <<"c","o","n","n","e","c","t"," ","m","e">>,
      <<"t","r","a","n","s","f","e","r"," ","m","e">>,
      <<"l","i","v","e"," ","a","g","e","n","t">>,
      <<"l","i","v","e"," ","p","e","r","s","o","n">> >>

\* the phrases compared with the message as typed
checkExplicitRequestAsTyped(message) ==
  \E k \in 1..Len(keywords) : includes(message, keywords[k])

checkExplicitRequest(message) ==
  LET lowerMessage == toLowerCase(message)
  IN  \E k \in 1..Len(keywords) : includes(lowerMessage, keywords[k])

\* ------------------------------------------------------------------------
\* Store queries
\* ------------------------------------------------------------------------
Min(a, b) == IF a < b THEN a ELSE b

Max(a, b) == IF a > b THEN a ELSE b

Reverse(s) == [i \in 1..Len(s) |-> s[Len(s) + 1 - i]]

limit(s, n) == SubSeq(s, 1, Min(n, Len(s)))

\* .from('messages').eq('conversation_id', c).eq('role', 'user')
\*   .order('created_at', { ascending: false })
\* rows of the table are kept in created_at order, oldest first
\* the user rows oldest first: ascending for descending in the order clause
UserRowsAsc(msgs, c) ==
  LET IsUserRow(m) == m.conversation_id = c /\ m.role = "user"
  IN  SelectSeq(msgs, IsUserRow)

UserRowsDesc(msgs, c) ==
  LET IsUserRow(m) == m.conversation_id = c /\ m.role = "user"
  IN  Reverse(SelectSeq(msgs, IsUserRow))

CountIn(s, Test(_)) == Cardinality({i \in 1..Len(s) : Test(s[i])})

NegativeWindow == 3

NegativeMinRows == 2

NegativeThreshold == 3

\* lookup is "ok", or "error" when the query returns an error or throws
checkNegativeSentiment(msgs, c, lookup) ==
  IF lookup # "ok" THEN FALSE
  ELSE LET recentMessages == limit(UserRowsDesc(msgs, c), NegativeWindow)
           IsNegative(m) == m.sentiment = "negative"
           negativeCounts == CountIn(recentMessages, IsNegative)
       IN  IF Len(recentMessages) < NegativeMinRows THEN FALSE
           ELSE negativeCounts >= NegativeThreshold

RepeatWindow == 6

RepeatMinRows == 4

RepeatMinWords == 3

ExactThreshold == 2

SimilarThreshold == 3

normalize(text) == trim(stripPunct(toLowerCase(text)))

longWords(normalized) == SelectSeq(splitWs(normalized), LongWord)

\* a word overlap of exactly 80% counted as well: >= for >
highSimilarityFrom(currentWords, msgWords) ==
  LET InMsg(w) == \E j \in 1..Len(msgWords) : msgWords[j] = w
      commonWords == SelectSeq(currentWords, InMsg)
  IN  10 * Len(commonWords) >= 8 * Max(Len(currentWords), Len(msgWords))

\* commonWords.length / Math.max(currentWords.length, msgWords.length) > 0.8
highSimilarity(currentWords, msgWords) ==
  LET InMsg(w) == \E j \in 1..Len(msgWords) : msgWords[j] = w
      commonWords == SelectSeq(currentWords, InMsg)
  IN  10 * Len(commonWords) > 8 * Max(Len(currentWords), Len(msgWords))

exactMatchCount(previous, currentNormalized) ==
  LET Exact(m) == normalize(m.content) = currentNormalized
  IN  CountIn(previous, Exact)

highSimilarityCount(previous, currentNormalized) ==
  LET currentWords == longWords(currentNormalized)
      Similar(m) == /\ normalize(m.content) # currentNormalized
                    /\ highSimilarity(currentWords, longWords(normalize(m.content)))
  IN  CountIn(previous, Similar)

\* the lookup limited to the eligibility minimum instead of the window
checkRepeatedQueryNarrow(msgs, c, currentMessage, lookup) ==
  IF lookup # "ok" THEN FALSE
  ELSE LET recentMessages == limit(UserRowsDesc(msgs, c), RepeatMinRows)
           currentNormalized == normalize(currentMessage)
           currentWords == longWords(currentNormalized)
           previous == Tail(recentMessages)
       IN  IF Len(recentMessages) < RepeatMinRows THEN FALSE
           ELSE IF Len(currentWords) < RepeatMinWords THEN FALSE
           ELSE \/ exactMatchCount(previous, currentNormalized) >= ExactThreshold
                \/ highSimilarityCount(previous, currentNormalized) >= SimilarThreshold

checkRepeatedQuery(msgs, c, currentMessage, lookup) ==
  IF lookup # "ok" THEN FALSE
  ELSE LET recentMessages == limit(UserRowsDesc(msgs, c), RepeatWindow)
           currentNormalized == normalize(currentMessage)
           currentWords == longWords(currentNormalized)
           previous == Tail(recentMessages)
       IN  IF Len(recentMessages) < RepeatMinRows THEN FALSE
           ELSE IF Len(currentWords) < RepeatMinWords THEN FALSE
           ELSE \/ exactMatchCount(previous, currentNormalized) >= ExactThreshold
                \/ highSimilarityCount(previous, currentNormalized) >= SimilarThreshold

\* confidence in hundredths: 1.0, 0.9, 0.85, 0
ConfExplicit == 100

ConfNegative == 90

ConfRepeated == 85

NoReason == "none"

Trigger(reason, confidence) ==
  [shouldEscalate |-> reason # NoReason, reason |-> reason, confidence |-> confidence]

\* the repeated-query decision given the confidence of the negative one
firstMatchLevel(explicit, negative, repeated) ==
  IF explicit THEN Trigger("explicit_request", ConfExplicit)
  ELSE IF negative THEN Trigger("negative_sentiment", ConfNegative)
  ELSE IF repeated THEN Trigger("repeated_query", ConfNegative)
  ELSE Trigger(NoReason, 0)

\* the orchestration of shouldEscalateToHuman over the evaluators' answers;
\* a later evaluator is only consulted when the earlier ones said no
firstMatch(explicit, negative, repeated) ==
  IF explicit THEN Trigger("explicit_request", ConfExplicit)
  ELSE IF negative THEN Trigger("negative_sentiment", ConfNegative)
  ELSE IF repeated THEN Trigger("repeated_query", ConfRepeated)
  ELSE Trigger(NoReason, 0)

shouldEscalateToHuman(msgs, c, userMessage, lookNeg, lookRep) ==
  firstMatch(checkExplicitRequest(userMessage),
             checkNegativeSentiment(msgs, c, lookNeg),
             checkRepeatedQuery(msgs, c, userMessage, lookRep))

\* ------------------------------------------------------------------------
\* State
\* ------------------------------------------------------------------------
VARIABLES
  build,          \* which of the repository's variants is deployed, and its environment
  conversations,  \* table conversations, row id = index, in created_at order
  messages,       \* table messages, row id = index, in created_at order
  analytics,      \* table chat_analytics, a bag of rows
  tickets,        \* tickets held by the ticketing system, ticket id = index
  emails,         \* e-mails accepted by the mail provider, a bag
  feedback,       \* table message_feedback, row id = index
  proc,           \* the execution contexts of chat requests and escalate calls
  hook,           \* the execution context of the agent-reply webhook
  served          \* number of chat requests and escalate calls accepted so far

vars ==
  <<build, conversations, messages, analytics, tickets, emails, feedback, proc, hook,
    served>>

Procs == {1, 2}

Sessions == {"s1"}

MaxRequests == 2

MaxOpen == 1

MaxResolves == 1

MaxHooks == 2

MaxOps == 3

Sentiments == {"positive", "neutral", "negative"}

Reasons == {"explicit_request", "negative_sentiment", "repeated_query"}

\* messages.role CHECK (role IN ('user', 'assistant', 'system'))
SchemaRoles == {"user", "assistant", "system"}

\* CREATE TABLE IF NOT EXISTS keeps a messages table that already exists,
\* with whatever role constraint it was given
AcceptedRoles(b) ==
  IF b.schema = "schema.sql" THEN SchemaRoles ELSE SchemaRoles \cup {"agent"}

Builds ==
  [handler : {"route.ts", "part_007"},
   escalate : {"part_003", "escalation.ts"},
   schema : {"schema.sql", "existing"},
   freshdesk : BOOLEAN,     \* FRESHDESK_DOMAIN && FRESHDESK_API_KEY
   resend : BOOLEAN]        \* RESEND_API_KEY && SUPPORT_EMAIL

\* ------------------------------------------------------------------------
\* JSON metadata: a function from the keys present to their values; a value
\* is the text it is stored as (a number by its decimal digits)
\* ------------------------------------------------------------------------
Undefined == <<"undefined">>

EmptyObject == [k \in {} |-> Undefined]

\* { ...a, ...b }
spread(a, b) ==
  [k \in DOMAIN a \cup DOMAIN b |-> IF k \in DOMAIN b THEN b[k] ELSE a[k]]

\* JSON.stringify drops the keys whose value is undefined
stringify(o) == [k \in {j \in DOMAIN o : o[j] # Undefined} |-> o[k]]

has(o, k) == k \in DOMAIN o

\* decimal digits of a positive number: String(n) and jsonb ->> on a number
RECURSIVE digits(_)
digits(n) ==
  LET d == <<"0","1","2","3","4","5","6","7","8","9">>[(n % 10) + 1]
  IN  IF n < 10 THEN <<d>> ELSE Append(digits(n \div 10), d)

\* metadata->>key : the text of the value, NULL (here <<>>) when absent
jsonText(o, k) == IF has(o, k) THEN o[k] ELSE <<>>

Now == <<"now">>

NewConversation(session) ==
  [session_id |-> session, status |-> "active", sentiment |-> "none",
   metadata |-> EmptyObject]

NewMessage(c, role, content, sentiment, ticket) ==
  [conversation_id |-> c, role |-> role, content |-> content,
   sentiment |-> sentiment, ticket |-> ticket]

ConvIds == 1..Len(conversations)

\* ------------------------------------------------------------------------
\* Execution contexts
\* ------------------------------------------------------------------------
NoConv == 0

NoTicket == 0

NoSnapshot == [found |-> FALSE]

Snapshot(c) ==
  IF c \in ConvIds
  THEN [found |-> TRUE, status |-> conversations[c].status,
        session_id |-> conversations[c].session_id,
        metadata |-> conversations[c].metadata]
  ELSE NoSnapshot

\* what a caller saw of the store and the notifiers when its first call returned
NoMark == [taken |-> FALSE]

IdleProc ==
  [pc |-> "idle", kind |-> "none", message |-> <<>>, sessionId |-> "",
   conversation |-> NoConv, msgId |-> 0, sentiment |-> "none",
   result |-> Trigger(NoReason, 0), matched |-> {}, failed |-> {},
   reason |-> NoReason, existing |-> NoSnapshot, ticketId |-> NoTicket,
   ticketFailed |-> FALSE, emailFailed |-> FALSE, noop |-> FALSE,
   bgMeta |-> "idle", bgRollup |-> "idle", rollup |-> "none",
   calls |-> 0, mark |-> NoMark, rating |-> 0, feedbackRow |-> 0, after |-> 0, body |-> <<>>,
   isResolved |-> FALSE,
   response |-> "none"]

IdleHook ==
  [pc |-> "idle", runs |-> 0, ticketId |-> NoTicket, resolved |-> FALSE,
   reply |-> "none", conversation |-> NoConv, metadata |-> EmptyObject, response |-> "none"]

\* ------------------------------------------------------------------------
\* Chat endpoint: POST /api/chat-stream
\* ------------------------------------------------------------------------
ActiveRows(session) ==
  {c \in ConvIds : /\ conversations[c].session_id = session
                   /\ conversations[c].status = "active"}

\* route.ts: .order('created_at', { ascending: false }).limit(1).maybeSingle()
\* part_007: .maybeSingle(), whose data is null unless exactly one row matches
ActiveConversation(b, session) ==
  LET rows == ActiveRows(session)
  IN  IF rows = {} THEN NoConv
      ELSE IF b.handler = "route.ts"
           THEN CHOOSE c \in rows : \A d \in rows : d <= c
           ELSE IF Cardinality(rows) = 1 THEN CHOOSE c \in rows : TRUE
                ELSE NoConv

\* execution contexts are interchangeable: a new request takes the lowest free one
LowestIdle(p) == \A q \in Procs : q < p => proc[q].pc # "idle"

\* the synchronous head of shouldEscalateToHuman
\* the explicit match recorded, the later checks still run and overwrite it
AfterExplicitContinues(r) ==
  IF checkExplicitRequest(r.message)
  THEN [r EXCEPT !.result = firstMatch(TRUE, FALSE, FALSE),
                 !.matched = {"explicit"}, !.pc = "neg"]
  ELSE [r EXCEPT !.pc = "neg"]

AfterExplicit(r) ==
  IF checkExplicitRequest(r.message)
  THEN [r EXCEPT !.result = firstMatch(TRUE, FALSE, FALSE),
                 !.matched = {"explicit"}, !.pc = "dispatch"]
  ELSE [r EXCEPT !.pc = "neg"]

ChatStart(p, message, sessionId) ==
  /\ proc[p].pc = "idle"
  /\ LowestIdle(p)
  /\ served < MaxRequests
  /\ served' = served + 1
  /\ LET r == [proc[p] EXCEPT !.kind = "chat", !.message = message,
                              !.sessionId = sessionId]
         existingConv == ActiveConversation(build, sessionId)
     IN  IF message = <<>> \/ sessionId = ""
         THEN proc' = [proc EXCEPT ![p] = [r EXCEPT !.pc = "done", !.response = "400"]]
         ELSE IF existingConv # NoConv
         THEN proc' = [proc EXCEPT ![p] =
                         [r EXCEPT !.pc = "save", !.conversation = existingConv]]
         ELSE proc' = [proc EXCEPT ![p] = [r EXCEPT !.pc = "create"]]
  /\ UNCHANGED <<build, feedback, conversations, messages, analytics, tickets, emails, hook>>

ChatCreateConv(p) ==
  /\ proc[p].pc = "create"
  /\ conversations' = Append(conversations, NewConversation(proc[p].sessionId))
  /\ proc' = [proc EXCEPT ![p].pc = "save",
                          ![p].conversation = Len(conversations) + 1]
  /\ UNCHANGED <<build, feedback, messages, analytics, tickets, emails, hook, served>>

ChatSave(p) ==
  /\ proc[p].pc = "save"
  /\ messages' = Append(messages,
        NewMessage(proc[p].conversation, "user", proc[p].message, "none", NoTicket))
  /\ LET r == [proc[p] EXCEPT !.msgId = Len(messages) + 1]
     IN  proc' = [proc EXCEPT ![p] =
                    IF build.handler = "route.ts" THEN AfterExplicit(r)
                    ELSE [r EXCEPT !.pc = "sentiment"]]
  /\ UNCHANGED <<build, feedback, conversations, analytics, tickets, emails, hook, served>>

\* the label written to every user row of the conversation: the update
\* keyed by conversation_id instead of the id of the saved row
ChatSentimentRelabels(p, label) ==
  /\ proc[p].pc = "sentiment"
  /\ messages' = [i \in 1..Len(messages) |->
        IF /\ messages[i].conversation_id = proc[p].conversation
           /\ messages[i].role = "user"
        THEN [messages[i] EXCEPT !.sentiment = label]
        ELSE messages[i]]
  /\ proc' = [proc EXCEPT ![p].sentiment = label, ![p].pc = "convsent"]
  /\ UNCHANGED <<build, feedback, conversations, analytics, tickets, emails, hook, served>>

\* part_007: analyzeSentiment, then the awaited update of the message row
ChatSentiment(p, label) ==
  /\ proc[p].pc = "sentiment"
  /\ messages' = [messages EXCEPT ![proc[p].msgId].sentiment = label]
  /\ proc' = [proc EXCEPT ![p].sentiment = label, ![p].pc = "convsent"]
  /\ UNCHANGED <<build, feedback, conversations, analytics, tickets, emails, hook, served>>

\* part_007: the awaited update of conversations.sentiment
ChatConvSentiment(p) ==
  /\ proc[p].pc = "convsent"
  /\ conversations' = [conversations EXCEPT
        ![proc[p].conversation].sentiment = proc[p].sentiment]
  /\ proc' = [proc EXCEPT ![p] = AfterExplicit(proc[p])]
  /\ UNCHANGED <<build, feedback, messages, analytics, tickets, emails, hook, served>>

\* the lookup's error reaches the route's catch block
DecideNegativeRaises(p, lookup) ==
  /\ proc[p].pc = "neg"
  /\ LET hasNegativeSentiment ==
           checkNegativeSentiment(messages, proc[p].conversation, lookup)
         r == [proc[p] EXCEPT !.failed = IF lookup = "ok" THEN @ ELSE @ \cup {"neg"}]
     IN  proc' = [proc EXCEPT ![p] =
            IF lookup # "ok" THEN [r EXCEPT !.pc = "done", !.response = "500"]
            ELSE IF hasNegativeSentiment
            THEN [r EXCEPT !.result = firstMatch(FALSE, TRUE, FALSE),
                           !.matched = @ \cup {"neg"}, !.pc = "dispatch"]
            ELSE [r EXCEPT !.pc = "rep"]]
  /\ UNCHANGED <<build, feedback, conversations, messages, analytics, tickets, emails, hook, served>>

DecideNegative(p, lookup) ==
  /\ proc[p].pc = "neg"
  /\ LET hasNegativeSentiment ==
           checkNegativeSentiment(messages, proc[p].conversation, lookup)
         r == [proc[p] EXCEPT !.failed = IF lookup = "ok" THEN @ ELSE @ \cup {"neg"}]
     IN  proc' = [proc EXCEPT ![p] =
            IF hasNegativeSentiment
            THEN [r EXCEPT !.result = firstMatch(FALSE, TRUE, FALSE),
                           !.matched = @ \cup {"neg"}, !.pc = "dispatch"]
            ELSE [r EXCEPT !.pc = "rep"]]
  /\ UNCHANGED <<build, feedback, conversations, messages, analytics, tickets, emails, hook, served>>

\* a detected repetition logged as an analytics event by the evaluator
DecideRepeatedLogs(p, lookup) ==
  /\ proc[p].pc = "rep"
  /\ LET hasRepeatedQuery ==
           checkRepeatedQuery(messages, proc[p].conversation, proc[p].message, lookup)
     IN  /\ proc' = [proc EXCEPT
                       ![p].failed = IF lookup = "ok" THEN @ ELSE @ \cup {"rep"},
                       ![p].matched = IF hasRepeatedQuery THEN @ \cup {"rep"} ELSE @,
                       ![p].result = firstMatch(FALSE, FALSE, hasRepeatedQuery),
                       ![p].pc = "dispatch"]
         /\ analytics' = IF hasRepeatedQuery
                         THEN analytics (+) SetToBag({[conversation_id |-> proc[p].conversation,
                                                       event_type |-> "repeated"]})
                         ELSE analytics
  /\ UNCHANGED <<build, feedback, conversations, messages, tickets, emails, hook, served>>

DecideRepeated(p, lookup) ==
  /\ proc[p].pc = "rep"
  /\ LET hasRepeatedQuery ==
           checkRepeatedQuery(messages, proc[p].conversation, proc[p].message, lookup)
     IN  proc' = [proc EXCEPT
                    ![p].failed = IF lookup = "ok" THEN @ ELSE @ \cup {"rep"},
                    ![p].matched = IF hasRepeatedQuery THEN @ \cup {"rep"} ELSE @,
                    ![p].result = firstMatch(FALSE, FALSE, hasRepeatedQuery),
                    ![p].pc = "dispatch"]
  /\ UNCHANGED <<build, feedback, conversations, messages, analytics, tickets, emails, hook, served>>

\* route.ts: Promise.all settles (sentiment label, decision, documents), the two
\* unawaited updates are issued, then the decision is acted on.
\* part_007: the decision is acted on; documents are fetched when not escalating.
ChatDispatch(p, label, docsOk) ==
  /\ proc[p].pc = "dispatch"
  /\ LET r == IF build.handler = "route.ts"
              THEN [proc[p] EXCEPT !.sentiment = label]
              ELSE proc[p]
         failed == ~docsOk /\ (build.handler = "route.ts" \/ ~r.result.shouldEscalate)
         bg == IF build.handler = "route.ts"
               THEN [r EXCEPT !.bgMeta = "pending", !.bgRollup = "pending"]
               ELSE r
     IN  proc' = [proc EXCEPT ![p] =
            [(IF failed THEN [r EXCEPT !.pc = "done", !.response = "500"]
              ELSE IF r.result.shouldEscalate
              THEN [bg EXCEPT !.pc = "esc_read", !.reason = r.result.reason]
              ELSE [bg EXCEPT !.pc = "generate"])
             EXCEPT !.matched = {}, !.failed = {}]]
  /\ UNCHANGED <<build, feedback, conversations, messages, analytics, tickets, emails, hook, served>>

\* the completion call and the stream; the assistant row is stored when the
\* stream carried text
ChatGenerate(p, outcome) ==
  /\ proc[p].pc = "generate"
  /\ IF outcome = "text"
     THEN messages' = Append(messages,
            NewMessage(proc[p].conversation, "assistant", <<"o","k">>, "none", NoTicket))
     ELSE UNCHANGED messages
  /\ proc' = [proc EXCEPT ![p].pc = "done",
                ![p].response = IF outcome = "api_error" THEN "500" ELSE "stream"]
  /\ UNCHANGED <<build, feedback, conversations, analytics, tickets, emails, hook, served>>

\* calculateOverallSentiment (route.ts)
calculateOverallSentiment(msgs, c) ==
  LET rows == UserRowsDesc(msgs, c)
      Is(l) == Cardinality({i \in 1..Len(rows) : rows[i].sentiment = l})
      total == Is("positive") + Is("neutral") + Is("negative")
  IN  IF total = 0 THEN "neutral"
      ELSE IF 100 * Is("negative") > 50 * total THEN "negative"
      ELSE IF 100 * Is("positive") > 50 * total THEN "positive"
      ELSE "neutral"

\* route.ts: the unawaited messages.update({ metadata: { sentiment } })
BgMetaWrite(p) ==
  /\ proc[p].bgMeta = "pending"
  /\ messages' = [messages EXCEPT ![proc[p].msgId].sentiment = proc[p].sentiment]
  /\ proc' = [proc EXCEPT ![p].bgMeta = "done"]
  /\ UNCHANGED <<build, feedback, conversations, analytics, tickets, emails, hook, served>>

\* route.ts: the unawaited calculateOverallSentiment(...).then(update)
BgRollupRead(p) ==
  /\ proc[p].bgRollup = "pending"
  /\ proc' = [proc EXCEPT ![p].bgRollup = "read",
                ![p].rollup = calculateOverallSentiment(messages, proc[p].conversation)]
  /\ UNCHANGED <<build, feedback, conversations, messages, analytics, tickets, emails, hook, served>>

BgRollupWrite(p) ==
  /\ proc[p].bgRollup = "read"
  /\ conversations' = [conversations EXCEPT
        ![proc[p].conversation].sentiment = proc[p].rollup]
  /\ proc' = [proc EXCEPT ![p].bgRollup = "done"]
  /\ UNCHANGED <<build, feedback, messages, analytics, tickets, emails, hook, served>>

\* the execution context of a finished request is released
ProcReset(p) ==
  /\ proc[p].pc \in {"done", "returned"}
  /\ proc[p].bgMeta # "pending"
  /\ proc[p].bgRollup \notin {"pending", "read"}
  /\ proc' = [proc EXCEPT ![p] = IdleProc]
  /\ UNCHANGED <<build, feedback, conversations, messages, analytics, tickets, emails, hook, served>>

\* ------------------------------------------------------------------------
\* Escalate transition: escalateConversation
\* ------------------------------------------------------------------------
\* where escalateConversation returns to: the chat endpoint answers
\* { escalated: true }, a direct caller gets control back
\* the handler goes on to the generation after escalateConversation returns
ReturnAndGenerate(r) ==
  IF r.kind = "chat" THEN [r EXCEPT !.pc = "generate"]
  ELSE [r EXCEPT !.pc = "returned"]

Return(r) ==
  IF r.kind = "chat" THEN [r EXCEPT !.pc = "done", !.response = "escalated"]
  ELSE [r EXCEPT !.pc = "returned"]

\* part_003: the guard read (status, session_id, metadata)
\* escalation.ts: the read of session_id
EscRead(p) ==
  /\ proc[p].pc = "esc_read"
  /\ LET r == [proc[p] EXCEPT !.existing = Snapshot(proc[p].conversation)]
     IN  proc' = [proc EXCEPT ![p] =
            IF build.escalate = "escalation.ts" THEN [r EXCEPT !.pc = "esc_update"]
            ELSE IF r.existing.found /\ r.existing.status = "escalated"
                 THEN Return([r EXCEPT !.noop = TRUE])
                 ELSE [r EXCEPT !.pc = "esc_ticket"]]
  /\ UNCHANGED <<build, feedback, conversations, messages, analytics, tickets, emails, hook, served>>

\* createFreshdeskTicket outside a try block: its failure reaches the caller
EscTicketRaises(p, ok) ==
  /\ proc[p].pc = "esc_ticket"
  /\ IF build.freshdesk /\ ok
     THEN /\ tickets' = Append(tickets, [conversation_id |-> proc[p].conversation,
                                         reason |-> proc[p].reason])
          /\ proc' = [proc EXCEPT ![p].ticketId = Len(tickets) + 1,
                                  ![p].pc = "esc_update"]
     ELSE /\ UNCHANGED tickets
          /\ proc' = [proc EXCEPT ![p].ticketFailed = build.freshdesk,
                                  ![p].pc = IF build.freshdesk THEN "done"
                                            ELSE "esc_update",
                                  ![p].response = IF build.freshdesk THEN "500"
                                                  ELSE @]
  /\ UNCHANGED <<build, feedback, conversations, messages, analytics, emails, hook, served>>

\* part_003: the read of the recent messages and createFreshdeskTicket
EscTicket(p, ok) ==
  /\ proc[p].pc = "esc_ticket"
  /\ IF build.freshdesk /\ ok
     THEN /\ tickets' = Append(tickets, [conversation_id |-> proc[p].conversation,
                                         reason |-> proc[p].reason])
          /\ proc' = [proc EXCEPT ![p].ticketId = Len(tickets) + 1,
                                  ![p].pc = "esc_update"]
     ELSE /\ UNCHANGED tickets
          /\ proc' = [proc EXCEPT ![p].ticketFailed = build.freshdesk,
                                  ![p].pc = "esc_update"]
  /\ UNCHANGED <<build, feedback, conversations, messages, analytics, emails, hook, served>>

EscalationMetadata(b, r) ==
  IF b.escalate = "escalation.ts"
  THEN [k \in {"escalation_reason", "escalated_at"} |->
          IF k = "escalation_reason" THEN <<r.reason>> ELSE Now]
  ELSE LET id == IF r.ticketId = NoTicket THEN Undefined ELSE digits(r.ticketId)
           url == IF r.ticketId = NoTicket THEN Undefined
                  ELSE <<"/a/tickets/">> \o digits(r.ticketId)
           old == IF r.existing.found THEN r.existing.metadata ELSE EmptyObject
           stamp == [k \in {"escalation_reason", "escalated_at", "freshdesk_ticket_id",
                            "freshdesk_ticket_url", "communication_channel"} |->
                       CASE k = "escalation_reason" -> <<r.reason>>
                         [] k = "escalated_at" -> Now
                         [] k = "freshdesk_ticket_id" -> id
                         [] k = "freshdesk_ticket_url" -> url
                         [] OTHER -> <<"chatbot_only">>]
       IN  stringify(spread(old, stamp))

EscUpdate(p) ==
  /\ proc[p].pc = "esc_update"
  /\ IF proc[p].conversation \in ConvIds
     THEN conversations' = [conversations EXCEPT
            ![proc[p].conversation].status = "escalated",
            ![proc[p].conversation].metadata = EscalationMetadata(build, proc[p])]
     ELSE UNCHANGED conversations
  /\ proc' = [proc EXCEPT ![p].pc = "esc_analytics"]
  /\ UNCHANGED <<build, feedback, messages, analytics, tickets, emails, hook, served>>

EscAnalytics(p) ==
  /\ proc[p].pc = "esc_analytics"
  /\ analytics' = analytics (+) SetToBag({[conversation_id |-> proc[p].conversation,
                                            event_type |-> "escalated"]})
  /\ proc' = [proc EXCEPT ![p].pc = "esc_notify"]
  /\ UNCHANGED <<build, feedback, conversations, messages, tickets, emails, hook, served>>

\* sendInternalNotification (part_003) / sendEscalationEmail (escalation.ts)
EscNotify(p, ok) ==
  /\ proc[p].pc = "esc_notify"
  /\ LET attempt == proc[p].existing.found /\ build.resend
     IN  /\ emails' = IF attempt /\ ok
                      THEN emails (+) SetToBag({[conversation_id |-> proc[p].conversation,
                                                  ticket |-> proc[p].ticketId]})
                      ELSE emails
         /\ proc' = [proc EXCEPT ![p] =
                       Return([proc[p] EXCEPT !.emailFailed = attempt /\ ~ok])]
  /\ UNCHANGED <<build, feedback, conversations, messages, analytics, tickets, hook, served>>

\* a caller of the exported escalateConversation(conversationId, reason)
CallEscalate(p, c, reason) ==
  /\ proc[p].pc = "idle"
  /\ LowestIdle(p)
  /\ c \in ConvIds
  /\ served < MaxRequests
  /\ served' = served + 1
  /\ proc' = [proc EXCEPT ![p].kind = "call", ![p].conversation = c,
                          ![p].reason = reason, ![p].calls = 1,
                          ![p].pc = "esc_read"]
  /\ UNCHANGED <<build, feedback, conversations, messages, analytics, tickets, emails, hook>>

\* the same caller calls again, right after the first call returned
CallAgain(p) ==
  /\ proc[p].pc = "returned"
  /\ proc[p].calls = 1
  /\ proc' = [proc EXCEPT ![p].calls = 2, ![p].pc = "esc_read",
                          ![p].mark = [taken |-> TRUE,
                                       conversations |-> conversations,
                                       analytics |-> analytics,
                                       tickets |-> tickets, emails |-> emails],
                          ![p].noop = FALSE, ![p].ticketId = NoTicket,
                          ![p].ticketFailed = FALSE, ![p].emailFailed = FALSE,
                          ![p].existing = NoSnapshot]
  /\ UNCHANGED <<build, feedback, conversations, messages, analytics, tickets, emails, hook, served>>

\* ------------------------------------------------------------------------
\* Resolution: POST /api/admin/resolve and the staleness sweep
\* ------------------------------------------------------------------------
Events(c, type) == CopiesIn([conversation_id |-> c, event_type |-> type], analytics)

RECURSIVE EventsIn(_, _)
EventsIn(S, type) ==
  IF S = {} THEN 0
  ELSE LET c == CHOOSE d \in S : TRUE
       IN  Events(c, type) + EventsIn(S \ {c}, type)

ResolvedEvents == EventsIn(ConvIds, "resolved")

AdminResolve(c) ==
  /\ c \in ConvIds
  /\ ResolvedEvents < MaxResolves
  /\ conversations' = [conversations EXCEPT
        ![c].status = "resolved",
        ![c].metadata = [k \in {"resolved_at"} |-> Now]]
  /\ analytics' = analytics (+) SetToBag({[conversation_id |-> c, event_type |-> "resolved"]})
  /\ UNCHANGED <<build, feedback, messages, tickets, emails, proc, hook, served>>

\* autoResolveOldConversations: stale is the set of active rows whose
\* updated_at is older than seven days when the sweep runs
autoResolveOldConversations(stale) ==
  /\ stale # {}
  /\ \A c \in stale : conversations[c].status = "active"
  /\ conversations' = [c \in ConvIds |->
        IF c \in stale
        THEN [conversations[c] EXCEPT !.status = "resolved",
                                      !.metadata = [k \in {"auto_resolved"} |-> <<"true">>]]
        ELSE conversations[c]]
  /\ UNCHANGED <<build, feedback, messages, analytics, tickets, emails, proc, hook, served>>

\* ------------------------------------------------------------------------
\* Agent reply ingestion: POST /api/webhooks/freshdesk
\* ------------------------------------------------------------------------
AgentRows == Cardinality({i \in 1..Len(messages) : messages[i].role = "agent"})

\* authorized: the secret check passes; ticketId 0: no ticket id in the body;
\* where the reply body of a webhook call comes from: the payload, the
\* ticket's latest Freshdesk conversation entry, or nowhere
Replies == {"payload", "fetched", "none"}

\* the fallback fetch is made only for a payload with a ticket id and no
\* reply body, and needs the Freshdesk credentials
HookReceive(authorized, ticketId, reply, resolved) ==
  /\ hook.pc = "idle"
  /\ hook.runs < MaxHooks
  /\ reply = "fetched" => (ticketId # NoTicket /\ build.freshdesk)
  /\ LET h == [IdleHook EXCEPT !.ticketId = ticketId, !.resolved = resolved,
                               !.reply = reply, !.runs = hook.runs + 1]
     IN  hook' = IF ~authorized THEN [h EXCEPT !.pc = "done", !.response = "401"]
                 ELSE IF ticketId = NoTicket \/ reply = "none"
                 THEN [h EXCEPT !.pc = "done", !.response = "400"]
                 ELSE [h EXCEPT !.pc = "lookup"]
  /\ UNCHANGED <<build, feedback, conversations, messages, analytics, tickets, emails, proc, served>>

\* .filter('metadata->>freshdesk_ticket_id', 'eq', String(ticketId))
TicketRows(ticketId) ==
  {c \in ConvIds :
     jsonText(conversations[c].metadata, "freshdesk_ticket_id") = digits(ticketId)}

\* the first row of the result used without the empty-result check
HookLookupUnchecked ==
  /\ hook.pc = "lookup"
  /\ IF TicketRows(hook.ticketId) = {}
     THEN hook' = [hook EXCEPT !.pc = "insert"]
     ELSE \E c \in TicketRows(hook.ticketId) :
            hook' = [hook EXCEPT !.pc = "insert", !.conversation = c,
                                 !.metadata = conversations[c].metadata]
  /\ UNCHANGED <<build, feedback, conversations, messages, analytics, tickets, emails, proc, served>>

HookLookup ==
  /\ hook.pc = "lookup"
  /\ IF TicketRows(hook.ticketId) = {}
     THEN hook' = [hook EXCEPT !.pc = "done", !.response = "404"]
     ELSE \E c \in TicketRows(hook.ticketId) :
            hook' = [hook EXCEPT !.pc = "insert", !.conversation = c,
                                 !.metadata = conversations[c].metadata]
  /\ UNCHANGED <<build, feedback, conversations, messages, analytics, tickets, emails, proc, served>>

\* the reply also stamped on the conversation, its metadata written over
HookInsertStamps ==
  /\ hook.pc = "insert"
  /\ IF "agent" \in AcceptedRoles(build)
     THEN /\ messages' = Append(messages,
                NewMessage(hook.conversation, "agent", <<"r">>, "none", hook.ticketId))
          /\ conversations' = [conversations EXCEPT
                ![hook.conversation].metadata = [k \in {"last_reply_at"} |-> Now]]
          /\ hook' = IF hook.resolved THEN [hook EXCEPT !.pc = "resolve"]
                     ELSE [hook EXCEPT !.pc = "done", !.response = "200"]
     ELSE /\ UNCHANGED <<messages, conversations>>
          /\ hook' = [hook EXCEPT !.pc = "done", !.response = "500"]
  /\ UNCHANGED <<build, feedback, analytics, tickets, emails, proc, served>>

HookInsert ==
  /\ hook.pc = "insert"
  /\ IF "agent" \in AcceptedRoles(build)
     THEN /\ messages' = Append(messages,
                NewMessage(hook.conversation, "agent", <<"r">>, "none", hook.ticketId))
          /\ hook' = IF hook.resolved THEN [hook EXCEPT !.pc = "resolve"]
                     ELSE [hook EXCEPT !.pc = "done", !.response = "200"]
     ELSE /\ UNCHANGED messages
          /\ hook' = [hook EXCEPT !.pc = "done", !.response = "500"]
  /\ UNCHANGED <<build, feedback, conversations, analytics, tickets, emails, proc, served>>

HookResolve ==
  /\ hook.pc = "resolve"
  /\ conversations' = [conversations EXCEPT
        ![hook.conversation].status = "resolved",
        ![hook.conversation].metadata =
           spread(hook.metadata,
                  [k \in {"resolved_at", "resolved_via"} |->
                     IF k = "resolved_at" THEN Now ELSE <<"freshdesk">>])]
  /\ hook' = [hook EXCEPT !.pc = "done", !.response = "200"]
  /\ UNCHANGED <<build, feedback, messages, analytics, tickets, emails, proc, served>>

\* the webhook's execution context is released
HookReset ==
  /\ hook.pc = "done"
  /\ hook' = [IdleHook EXCEPT !.runs = hook.runs]
  /\ UNCHANGED <<build, feedback, conversations, messages, analytics, tickets, emails, proc, served>>

\* ------------------------------------------------------------------------
\* Message feedback: POST /api/feedback
\* ------------------------------------------------------------------------
\* an absent field and the number 0 are both falsy: 0 stands for either
NoRating == 0
NoMessage == 0

\* CHECK (rating IN (1, -1))
ValidRatings == {1, -1}

\* message_id UUID REFERENCES messages(id)
MessageExists(m) == m \in 1..Len(messages)

NewFeedback(m, rating) == [message_id |-> m, rating |-> rating]

\* .from('message_feedback').select('*').eq('message_id', messageId)
FeedbackRowsIn(table, m) == {i \in 1..Len(table) : table[i].message_id = m}

FeedbackRows(m) == FeedbackRowsIn(feedback, m)

\* .maybeSingle(): the row when exactly one matches, no data otherwise
maybeSingle(rows) ==
  IF Cardinality(rows) = 1 THEN CHOOSE i \in rows : TRUE ELSE 0

\* the rating saved without either validation
FeedbackStartUnchecked(p, messageId, rating) ==
  /\ proc[p].pc = "idle"
  /\ LowestIdle(p)
  /\ served < MaxRequests
  /\ served' = served + 1
  /\ proc' = [proc EXCEPT ![p] =
                [proc[p] EXCEPT !.kind = "feedback", !.msgId = messageId,
                                !.rating = rating, !.pc = "fb_read"]]
  /\ UNCHANGED <<build, feedback, conversations, messages, analytics, tickets, emails, hook>>

FeedbackStart(p, messageId, rating) ==
  /\ proc[p].pc = "idle"
  /\ LowestIdle(p)
  /\ served < MaxRequests
  /\ served' = served + 1
  /\ LET r == [proc[p] EXCEPT !.kind = "feedback", !.msgId = messageId,
                              !.rating = rating]
     IN  proc' = [proc EXCEPT ![p] =
                    IF messageId = NoMessage \/ rating = NoRating
                    THEN [r EXCEPT !.pc = "done", !.response = "400"]
                    ELSE IF rating # 1 /\ rating # -1
                    THEN [r EXCEPT !.pc = "done", !.response = "400"]
                    ELSE [r EXCEPT !.pc = "fb_read"]]
  /\ UNCHANGED <<build, feedback, conversations, messages, analytics, tickets, emails, hook>>

FeedbackRead(p) ==
  /\ proc[p].pc = "fb_read"
  /\ proc' = [proc EXCEPT ![p].feedbackRow = maybeSingle(FeedbackRows(proc[p].msgId)),
                          ![p].pc = "fb_write"]
  /\ UNCHANGED <<build, feedback, conversations, messages, analytics, tickets, emails, hook, served>>

\* update by the id of the row read, or insert; a store error is thrown
\* and answered with 500
FeedbackWrite(p) ==
  /\ proc[p].pc = "fb_write"
  /\ LET r == proc[p]
         accepted == /\ r.rating \in ValidRatings
                     /\ r.feedbackRow = 0 => MessageExists(r.msgId)
     IN  /\ feedback' =
               IF ~accepted THEN feedback
               ELSE IF r.feedbackRow # 0
               THEN [feedback EXCEPT ![r.feedbackRow].rating = r.rating]
               ELSE Append(feedback, NewFeedback(r.msgId, r.rating))
         /\ proc' = [proc EXCEPT ![p].pc = "done",
                                 ![p].response = IF accepted THEN "200" ELSE "500"]
  /\ UNCHANGED <<build, conversations, messages, analytics, tickets, emails, hook, served>>

\* 2 stands for any value other than 0, 1 and -1
Ratings == {NoRating, 1, -1, 2}

FeedbackNext(P) ==
  \E p \in P :
    \/ \E m \in 0..(Len(messages) + 1), r \in Ratings : FeedbackStart(p, m, r)
    \/ FeedbackRead(p)
    \/ FeedbackWrite(p)

\* ------------------------------------------------------------------------
\* The system: concurrent chat requests, webhook, admin resolve, sweep
\* ------------------------------------------------------------------------
Lookups == {"ok", "error"}

\* ------------------------------------------------------------------------
\* Polling for agent replies: GET /api/chat/poll-agent
\* ------------------------------------------------------------------------
\* the `after` parameter absent or empty; a cursor is the creation time of
\* a message, and messages are stored in the order of their creation
NoCursor == 0

\* .eq('session_id', sessionId).in('status', ['escalated', 'resolved'])
HandedOverRows(sessionId) ==
  {c \in ConvIds : /\ conversations[c].session_id = sessionId
                   /\ conversations[c].status \in {"escalated", "resolved"}}

\* .order('created_at', { ascending: false }).limit(1).maybeSingle()
latest(rows) ==
  IF rows = {} THEN NoConv ELSE CHOOSE c \in rows : \A d \in rows : d <= c

\* .order('created_at', { ascending: true })
RECURSIVE ascending(_)
ascending(rows) ==
  IF rows = {} THEN <<>>
  ELSE LET first == CHOOSE i \in rows : \A j \in rows : i <= j
       IN  <<first>> \o ascending(rows \ {first})

\* the cursor row itself returned again: gte for gt
agentMessagesFrom(c, after) ==
  LET rows == {i \in 1..Len(messages) : /\ messages[i].conversation_id = c
                                        /\ messages[i].role = "agent"}
  IN  ascending(IF after # NoCursor THEN {i \in rows : i >= after} ELSE rows)

\* .eq('conversation_id', id).eq('role', 'agent'), .gt('created_at', after)
\* when a cursor is given
agentMessages(c, after) ==
  LET rows == {i \in 1..Len(messages) : /\ messages[i].conversation_id = c
                                        /\ messages[i].role = "agent"}
  IN  ascending(IF after # NoCursor THEN {i \in rows : i > after} ELSE rows)

PollStart(p, sessionId, after, lookup) ==
  /\ proc[p].pc = "idle"
  /\ LowestIdle(p)
  /\ served < MaxRequests
  /\ served' = served + 1
  /\ LET r == [proc[p] EXCEPT !.kind = "poll", !.sessionId = sessionId,
                              !.after = after]
         conversation == latest(HandedOverRows(sessionId))
     IN  proc' = [proc EXCEPT ![p] =
                    IF sessionId = ""
                    THEN [r EXCEPT !.pc = "done", !.response = "400"]
                    ELSE IF lookup = "error" \/ conversation = NoConv
                    THEN [r EXCEPT !.pc = "done", !.response = "200",
                                   !.failed = IF lookup = "error" THEN {"conv"} ELSE {},
                                   !.isResolved = FALSE, !.body = <<>>]
                    ELSE [r EXCEPT !.pc = "poll_messages",
                                   !.conversation = conversation,
                                   !.isResolved =
                                      conversations[conversation].status = "resolved"]]
  /\ UNCHANGED <<build, feedback, conversations, messages, analytics, tickets, emails, hook>>

PollMessages(p, lookup) ==
  /\ proc[p].pc = "poll_messages"
  /\ proc' = [proc EXCEPT ![p] =
                IF lookup = "error"
                THEN [proc[p] EXCEPT !.pc = "done", !.response = "500",
                                     !.failed = {"msg"}]
                ELSE [proc[p] EXCEPT !.pc = "done", !.response = "200",
                                     !.body = agentMessages(proc[p].conversation,
                                                            proc[p].after)]]
  /\ UNCHANGED <<build, feedback, conversations, messages, analytics, tickets, emails, hook, served>>

TextHuman == <<"H","u","m","a","n">>

TextPlain == <<"n","o">>

ChatTexts == {<<>>, TextHuman, TextPlain}

EmptyStore ==
  /\ conversations = <<>>
  /\ messages = <<>>
  /\ analytics = EmptyBag
  /\ tickets = <<>>
  /\ emails = EmptyBag
  /\ feedback = <<>>

\* the chat endpoint with its mail and ticketing environment configured;
\* a failed ticket or e-mail leaves the store as an unconfigured one does
ChatBuilds ==
  {b \in Builds : b.schema = "schema.sql" /\ b.freshdesk /\ b.resend}

ChatNext(P) ==
  \E p \in P :
    \/ \E m \in ChatTexts, s \in Sessions \cup {""} : ChatStart(p, m, s)
    \/ ChatCreateConv(p)
    \/ ChatSave(p)
    \/ \E l \in Sentiments : ChatSentiment(p, l)
    \/ ChatConvSentiment(p)
    \/ \E k \in Lookups : DecideNegative(p, k)
    \/ \E k \in Lookups : DecideRepeated(p, k)
    \/ \E l \in Sentiments, ok \in BOOLEAN : ChatDispatch(p, l, ok)
    \/ \E o \in {"api_error", "empty", "text"} : ChatGenerate(p, o)
    \/ BgMetaWrite(p)
    \/ BgRollupRead(p)
    \/ BgRollupWrite(p)
    \/ ProcReset(p)

EscNext(P) ==
  \E p \in P :
    \/ EscRead(p)
    \/ \E ok \in BOOLEAN : EscTicket(p, ok)
    \/ EscUpdate(p)
    \/ EscAnalytics(p)
    \/ \E ok \in BOOLEAN : EscNotify(p, ok)

ResolveNext ==
  \/ \E c \in ConvIds : AdminResolve(c)
  \/ \E stale \in SUBSET ConvIds : autoResolveOldConversations(stale)

HookNext ==
  \/ \E a \in BOOLEAN, t \in 0..(Len(tickets) + 1), r \in Replies, d \in BOOLEAN :
       HookReceive(a, t, r, d)
  \/ HookLookup
  \/ HookInsert
  \/ HookResolve
  \/ HookReset

Idle ==
  /\ proc = [p \in Procs |-> IdleProc]
  /\ hook = IdleHook
  /\ served = 0

\* chat requests handled one after the other, from an empty store
Init ==
  /\ build \in ChatBuilds
  /\ EmptyStore
  /\ Idle

Next == ChatNext({1}) \/ EscNext({1})

Spec == Init /\ [][Next]_vars

\* two chat requests in flight at once
NextChat == ChatNext(Procs) \/ EscNext(Procs)

SpecChat == Init /\ [][NextChat]_vars

\* ------------------------------------------------------------------------
\* Direct callers of escalateConversation, next to the resolution routes and
\* the webhook
\* ------------------------------------------------------------------------
\* n conversations, each opened by a first chat message
OpenStore(n) ==
  /\ conversations = [c \in 1..n |-> NewConversation("s1")]
  /\ messages = [c \in 1..n |-> NewMessage(c, "user", TextPlain, "neutral", NoTicket)]
  /\ analytics = EmptyBag
  /\ tickets = <<>>
  /\ emails = EmptyBag
  /\ feedback = <<>>

CallReasons == {"explicit_request"}

CallNext(P) ==
  \E p \in P :
    \/ \E c \in ConvIds, r \in CallReasons : CallEscalate(p, c, r)
    \/ ProcReset(p)

TicketBuilds ==
  {b \in Builds : b.handler = "route.ts" /\ b.freshdesk /\ b.resend}

InitTicket ==
  /\ build \in TicketBuilds
  /\ \E n \in 1..MaxOpen : OpenStore(n)
  /\ Idle

NextTicket == CallNext(Procs) \/ EscNext(Procs) \/ ResolveNext \/ HookNext

SpecTicket == InitTicket /\ [][NextTicket]_vars

\* one caller that escalates a conversation and then escalates it again
TwiceBuilds == {b \in Builds : b.handler = "route.ts" /\ b.schema = "schema.sql"}

InitTwice ==
  /\ build \in TwiceBuilds
  /\ \E n \in 1..MaxOpen : OpenStore(n)
  /\ Idle

NextTwice ==
  \/ \E c \in ConvIds, r \in Reasons : CallEscalate(1, c, r)
  \/ CallAgain(1)
  \/ EscNext({1})

SpecTwice == InitTwice /\ [][NextTwice]_vars

\* ------------------------------------------------------------------------
\* Escalate transition: properties
\* ------------------------------------------------------------------------
TicketsFor(c) == Cardinality({t \in 1..Len(tickets) : tickets[t].conversation_id = c})

RECURSIVE EmailsIn(_, _)
EmailsIn(c, T) ==
  IF T = {} THEN 0
  ELSE LET t == CHOOSE u \in T : TRUE
       IN  CopiesIn([conversation_id |-> c, ticket |-> t], emails)
             + EmailsIn(c, T \ {t})

EmailsFor(c) == EmailsIn(c, 0..Len(tickets))

SecondCallReturned(p) ==
  proc[p].kind = "call" /\ proc[p].calls = 2 /\ proc[p].pc = "returned"

\* C1: when escalate is invoked twice in a row on the same conversation, the
\* second invocation is a no-op: the conversation row, the analytics events,
\* the tickets and the e-mails are what they were when the first invocation
\* returned, and the conversation has at most one ticket and one e-mail.
C1_SecondCallNoOp ==
  \A p \in Procs :
    SecondCallReturned(p) =>
      /\ conversations = proc[p].mark.conversations
      /\ analytics = proc[p].mark.analytics
      /\ tickets = proc[p].mark.tickets
      /\ emails = proc[p].mark.emails
      /\ TicketsFor(proc[p].conversation) <= 1
      /\ EmailsFor(proc[p].conversation) <= 1

\* C2: however the reads, the ticket creation and the writes of concurrent
\* escalate transitions interleave, a conversation gets at most one external
\* ticket and at most one support e-mail.
C2_OneNotification ==
  \A c \in ConvIds : TicketsFor(c) <= 1 /\ EmailsFor(c) <= 1

\* C7: no ticket and no support e-mail has been issued for a conversation
\* whose stored status is still active: the status write comes first.
C7_StatusBeforeNotifier ==
  \A c \in ConvIds :
    (TicketsFor(c) > 0 \/ EmailsFor(c) > 0) => conversations[c].status # "active"

NotifierFailed(p) == proc[p].ticketFailed \/ proc[p].emailFailed

\* C8: when the ticket creation or the support e-mail of an escalate
\* transition failed, the chat request still ends with the escalated answer,
\* not an error, and the conversation is stored as escalated with its
\* escalation metadata.
C8_FailureKeepsEscalation ==
  \A p \in Procs :
    (proc[p].kind = "chat" /\ proc[p].pc = "done" /\ NotifierFailed(p)) =>
      /\ proc[p].response = "escalated"
      /\ conversations[proc[p].conversation].status = "escalated"
      /\ has(conversations[proc[p].conversation].metadata, "escalation_reason")
      /\ has(conversations[proc[p].conversation].metadata, "escalated_at")

\* a chat request answered after both the ticket creation and the e-mail failed
C8_Witness ==
  \E p \in Procs :
    /\ proc[p].kind = "chat" /\ proc[p].pc = "done"
    /\ proc[p].ticketFailed /\ proc[p].emailFailed
    /\ proc[p].response = "escalated"

\* ------------------------------------------------------------------------
\* Decision engine on drawn conversations
\* ------------------------------------------------------------------------
TextSpeak == <<"I"," ","n","e","e","d"," ","t","o"," ","s","p","e","a","k"," ","t","o"," ","a"," ","h","u","m","a","n">>

TextPrice == <<"W","h","a","t"," ","i","s"," ","t","h","e"," ","p","r","i","c","e","?">>

TextBroken == <<"s","t","i","l","l"," ","b","r","o","k","e","n">>

TextReset == <<"h","o","w"," ","d","o"," ","I"," ","r","e","s","e","t"," ","m","y"," ","h","u","b","?">>

TextSetup == <<"n","e","e","d"," ","h","e","l","p"," ","w","i","t","h"," ","s","e","t","u","p">>

\* TextSetup in another case, with doubled whitespace and punctuation
TextSetupAgain == <<"N","e","e","d"," "," ","h","e","l","p"," ","w","i","t","h"," ","s","e","t","u","p","!">>

\* one request on an open conversation, followed up to its decision
DecideNext(Texts) ==
  \/ \E m \in Texts : ChatStart(1, m, "s1")
  \/ ChatSave(1)
  \/ \E l \in Sentiments : ChatSentiment(1, l)
  \/ ChatConvSentiment(1)
  \/ \E k \in Lookups : DecideNegative(1, k)
  \/ \E k \in Lookups : DecideRepeated(1, k)

SeqsUpTo(S, n) == UNION {[1..k -> S] : k \in 0..n}

UserRow(text, label) == NewMessage(1, "user", text, label, NoTicket)

DecideBuilds ==
  {b \in Builds : /\ b.escalate = (IF b.handler = "route.ts" THEN "part_003"
                                   ELSE "escalation.ts")
                  /\ b.schema = "schema.sql" /\ b.freshdesk /\ b.resend}

InitDecide(Rows, n) ==
  /\ build \in DecideBuilds
  /\ conversations = <<NewConversation("s1")>>
  /\ messages \in SeqsUpTo(Rows, n)
  /\ analytics = EmptyBag
  /\ tickets = <<>>
  /\ emails = EmptyBag
  /\ feedback = <<>>
  /\ Idle

\* explicit requests: every phrase, in four letter cases, between paddings
PadChars == {"x", " "}

Pads == SeqsUpTo(PadChars, MaxPad)

capitalize(s) == [i \in 1..Len(s) |-> IF i = 1 THEN toUpperChar(s[i]) ELSE s[i]]

alternate(s) == [i \in 1..Len(s) |-> IF i % 2 = 0 THEN toUpperChar(s[i]) ELSE s[i]]

CaseVariants(k) == {k, toUpperCase(k), capitalize(k), alternate(k)}

ExplicitTexts ==
  {pre \o v \o post : pre \in Pads, post \in Pads,
                     v \in UNION {CaseVariants(keywords[k]) : k \in 1..Len(keywords)}}

\* texts one character away from a phrase
NearTexts == {<<"h","u","m","e","n">>, <<"l","i","v","e"," "," ","a","g","e","n"," ","t">>, TextPrice}

ExplicitRows == {UserRow(TextBroken, "negative"), UserRow(TextSetup, "neutral")}

SpecExplicit ==
  InitDecide(ExplicitRows, NegativeWindow)
    /\ [][DecideNext(ExplicitTexts \cup NearTexts)]_vars

\* histories of up to MaxHist user messages
DecideRows ==
  {UserRow(TextReset, "neutral"), UserRow(TextSetup, "neutral"),
   UserRow(TextBroken, "negative")}

DecideTexts == {TextSpeak, TextBroken, TextReset, TextSetup, TextSetupAgain}

SpecDecide == InitDecide(DecideRows, MaxHist) /\ [][DecideNext(DecideTexts)]_vars

\* ------------------------------------------------------------------------
\* Decision engine: properties
\* ------------------------------------------------------------------------
\* the decision of p's request has been taken
Decided(p) == proc[p].kind = "chat" /\ proc[p].pc = "dispatch"

\* the text holds a phrase of the vocabulary, letter case apart
ContainsPhrase(text) ==
  \E k \in 1..Len(keywords) :
    \E i \in 0..(Len(text) - Len(keywords[k])) :
      \A j \in 1..Len(keywords[k]) : toLowerChar(text[i + j]) = keywords[k][j]

\* the user messages of p's conversation sent before the current one
Priors(p) ==
  LET IsUserRow(m) == m.conversation_id = proc[p].conversation /\ m.role = "user"
  IN  SelectSeq(SubSeq(messages, 1, proc[p].msgId - 1), IsUserRow)

NegativeIn(rows) == Cardinality({i \in 1..Len(rows) : rows[i].sentiment = "negative"})

C4_Priority ==
  \A p \in Procs :
    Decided(p) =>
      LET c == proc[p].conversation
          e == ContainsPhrase(proc[p].message)
          n == checkNegativeSentiment(messages, c, "ok")
          r == checkRepeatedQuery(messages, c, proc[p].message, "ok")
          reason == proc[p].result.reason
      IN  /\ reason \in Reasons \cup {NoReason}
          /\ proc[p].result.shouldEscalate <=> reason \in Reasons
          /\ e => reason = "explicit_request"
          /\ reason = "explicit_request" => e
          /\ reason = "negative_sentiment" => ~e /\ n
          /\ (~e /\ n /\ "neg" \notin proc[p].failed) => reason = "negative_sentiment"
          /\ reason = "repeated_query" => ~e /\ r /\ (~n \/ "neg" \in proc[p].failed)

\* the negative and the repeated conditions hold together, negative is reported
C4_Witness ==
  /\ Decided(1)
  /\ checkNegativeSentiment(messages, 1, "ok")
  /\ checkRepeatedQuery(messages, 1, proc[1].message, "ok")
  /\ proc[1].result.reason = "negative_sentiment"

\* C5: with no explicit phrase in the message and every lookup answered, a
\* conversation whose 3 prior user messages are all negative is decided
\* negative_sentiment, and one with only 2 of the 3 negative is not.
C5_NegativePriors ==
  \A p \in Procs :
    (/\ Decided(p)
     /\ ~ContainsPhrase(proc[p].message)
     /\ proc[p].failed = {}
     /\ Len(Priors(p)) = NegativeWindow) =>
      /\ NegativeIn(Priors(p)) = 3 => proc[p].result.reason = "negative_sentiment"
      /\ NegativeIn(Priors(p)) = 2 => proc[p].result.reason # "negative_sentiment"

\* lowercase, ?.!, stripped, whitespace collapsed
collapsed(text) == splitWs(stripPunct(toLowerCase(text)))

SameQuery(a, b) == collapsed(a) = collapsed(b)

ExactPriors(p) ==
  LET current == normalize(proc[p].message)
      priors == Priors(p)
  IN  {i \in 1..Len(priors) : normalize(priors[i].content) = current}

\* the case of C6 for a message long enough to be compared
RepeatCase(p) ==
  /\ Decided(p)
  /\ proc[p].failed = {}
  /\ messages[proc[p].msgId].sentiment # "negative"
  /\ ~ContainsPhrase(proc[p].message)
  /\ Len(Priors(p)) = 5
  /\ NegativeIn(Priors(p)) = 0
  /\ Len(longWords(normalize(proc[p].message))) >= RepeatMinWords

Shapes == {"open", "ticketed", "unticketed", "wiped", "closed"}

HasTicket(shape) == shape \in {"ticketed", "wiped", "closed"}

\* ticket ids are handed out in the order of creation
TicketOf(shapes, c) ==
  IF HasTicket(shapes[c])
  THEN Cardinality({d \in 1..c : HasTicket(shapes[d])})
  ELSE NoTicket

Escalated(t) ==
  [NewConversation("s1") EXCEPT
     !.status = "escalated",
     !.metadata = EscalationMetadata([escalate |-> "part_003"],
                    [reason |-> "explicit_request", ticketId |-> t,
                     existing |-> NoSnapshot])]

ResolvedStamp ==
  [k \in {"resolved_at", "resolved_via"} |->
     IF k = "resolved_at" THEN Now ELSE <<"freshdesk">>]

ShapedRow(shape, t) ==
  CASE shape = "open" -> NewConversation("s1")
    [] shape = "wiped" ->
         [NewConversation("s1") EXCEPT !.status = "resolved",
                                       !.metadata = [k \in {"resolved_at"} |-> Now]]
    [] shape = "closed" ->
         [Escalated(t) EXCEPT !.status = "resolved",
                              !.metadata = spread(@, ResolvedStamp)]
    [] OTHER -> Escalated(t)

RECURSIVE ShapedMessages(_, _)
ShapedMessages(shapes, c) ==
  IF c = 0 THEN <<>>
  ELSE ShapedMessages(shapes, c - 1)
         \o <<NewMessage(c, "user", TextHuman, "none", NoTicket)>>
         \o (IF shapes[c] = "closed"
             THEN <<NewMessage(c, "agent", <<"r">>, "none", TicketOf(shapes, c))>>
             ELSE <<>>)

RECURSIVE ShapedTickets(_, _)
ShapedTickets(shapes, c) ==
  IF c = 0 THEN <<>>
  ELSE ShapedTickets(shapes, c - 1)
         \o (IF HasTicket(shapes[c])
             THEN <<[conversation_id |-> c, reason |-> "explicit_request"]>>
             ELSE <<>>)

RECURSIVE ShapedEvents(_, _)
ShapedEvents(shapes, c) ==
  IF c = 0 THEN EmptyBag
  ELSE ShapedEvents(shapes, c - 1)
         (+) (IF shapes[c] = "open" THEN EmptyBag
              ELSE SetToBag({[conversation_id |-> c, event_type |-> "escalated"]}))
         (+) (IF shapes[c] = "wiped"
              THEN SetToBag({[conversation_id |-> c, event_type |-> "resolved"]})
              ELSE EmptyBag)

ShapedStore(shapes) ==
  /\ conversations = [c \in DOMAIN shapes |-> ShapedRow(shapes[c], TicketOf(shapes, c))]
  /\ messages = ShapedMessages(shapes, Len(shapes))
  /\ tickets = ShapedTickets(shapes, Len(shapes))
  /\ analytics = ShapedEvents(shapes, Len(shapes))
  /\ emails = EmptyBag
  /\ feedback = <<>>

HookBuilds ==
  {b \in Builds : b.handler = "route.ts" /\ b.escalate = "part_003"
                  /\ b.freshdesk /\ b.resend}

\* a row resolved by the webhook needs a store that takes the agent role
InitHook ==
  /\ build \in HookBuilds
  /\ \E n \in 1..MaxOpen : \E shapes \in [1..n -> Shapes] :
       /\ (\E c \in 1..n : shapes[c] = "closed") => "agent" \in AcceptedRoles(build)
       /\ ShapedStore(shapes)
  /\ Idle

SpecHook == InitHook /\ [][HookNext]_vars

\* ------------------------------------------------------------------------
\* Ticket correlation: properties
\* ------------------------------------------------------------------------
\* the escalate call that created ticket t still has its store write ahead
WritePending(t) ==
  \E p \in Procs : proc[p].ticketId = t /\ proc[p].pc = "esc_update"

\* C9: once an escalate transition has created ticket t for a conversation
\* and written its store update, the webhook lookup for t finds that
\* conversation, whatever else has happened to the conversation since.
C9_TicketRoundTrip ==
  \A t \in 1..Len(tickets) :
    ~WritePending(t) => tickets[t].conversation_id \in TicketRows(t)

C11_ResolvedIsTerminal ==
  [][\A c \in ConvIds :
       conversations[c].status = "resolved" =>
         conversations'[c].status = "resolved"]_vars

\* C12: in every reachable state a session has at most one conversation
\* with status active, also while several of its chat requests are handled.
C12_OneActivePerSession ==
  \A s \in Sessions : Cardinality(ActiveRows(s)) <= 1

\* the keys the escalate transition stamps
EscalationKeys ==
  {"escalation_reason", "escalated_at", "freshdesk_ticket_id",
   "freshdesk_ticket_url", "communication_channel"}

\* a step that writes status escalated to conversation c
EscalatesRow(c) ==
  /\ conversations'[c] # conversations[c]
  /\ conversations'[c].status = "escalated"

\* C13: a step that sets a conversation to escalated keeps every metadata
\* key the conversation had just before, with its value, apart from the
\* keys the transition stamps itself.
C13_EscalateKeepsMetadata ==
  [][\A c \in ConvIds :
       EscalatesRow(c) =>
         \A k \in (DOMAIN conversations[c].metadata) \ EscalationKeys :
           /\ has(conversations'[c].metadata, k)
           /\ conversations'[c].metadata[k] = conversations[c].metadata[k]]_vars

\* one caller of escalateConversation at a time, next to the resolution
\* routes and the webhook, with at most MaxOps operations started in all
OpsStarted == served + hook.runs + ResolvedEvents

LifeStart ==
  /\ OpsStarted < MaxOps
  /\ \/ \E c \in ConvIds, r \in CallReasons : CallEscalate(1, c, r)
     \/ \E c \in ConvIds : AdminResolve(c)
     \/ \E a \in BOOLEAN, t \in 0..(Len(tickets) + 1), r \in Replies, d \in BOOLEAN :
          HookReceive(a, t, r, d)

LifeStep ==
  \/ ProcReset(1)
  \/ EscNext({1})
  \/ \E stale \in SUBSET ConvIds : autoResolveOldConversations(stale)
  \/ HookLookup
  \/ HookInsert
  \/ HookResolve
  \/ HookReset

NextLife == LifeStart \/ LifeStep

SpecLife == InitTicket /\ [][NextLife]_vars

\* C14: a step that removes escalated_at from a conversation's metadata is a
\* resolution: it writes status resolved to that conversation. Any other
\* step leaves escalated_at in place once it is set.
C14_EscalatedAtKept ==
  [][\A c \in ConvIds :
       (/\ has(conversations[c].metadata, "escalated_at")
        /\ ~has(conversations'[c].metadata, "escalated_at")) =>
         conversations'[c].status = "resolved"]_vars

\* an agent reply has been stored for an escalated conversation, which still
\* carries escalated_at
C14_Witness ==
  \E i \in 1..Len(messages) :
    /\ messages[i].role = "agent"
    /\ conversations[messages[i].conversation_id].status = "escalated"
    /\ has(conversations[messages[i].conversation_id].metadata, "escalated_at")

\* ------------------------------------------------------------------------
\* Decision engine: effects and failures
\* ------------------------------------------------------------------------
\* p's request is inside shouldEscalateToHuman, at one of its lookups
Deciding(p) == proc[p].kind = "chat" /\ proc[p].pc \in {"neg", "rep"}

\* C15: a step of shouldEscalateToHuman leaves the store and the notifiers
\* as they are: no conversation, message, analytics or feedback row changes
\* and no ticket or e-mail is issued, whatever the lookup answers.
C15_DecisionIsPure ==
  [][\A p \in Procs :
       (Deciding(p) /\ proc'[p] # proc[p]) =>
         UNCHANGED <<conversations, messages, analytics, tickets, emails,
                     feedback>>]_vars

\* a decision reached through both lookups that ends as repeated_query
C15_Witness ==
  /\ Decided(1)
  /\ proc[1].matched = {"rep"}
  /\ proc[1].result.shouldEscalate

\* C16: a failed lookup counts as no match and the engine goes on: after a
\* failed negative-sentiment lookup the repetition trigger is still
\* evaluated and decides, after a failed repetition lookup the decision is
\* "no escalation"; the request has not been answered with an error.
C16_LookupFailureIsNoMatch ==
  \A p \in Procs :
    proc[p].failed # {} =>
      /\ proc[p].response = "none"
      /\ "neg" \in proc[p].failed => proc[p].pc \in {"rep", "dispatch"}
      /\ "rep" \in proc[p].failed => Decided(p)
      /\ Decided(p) =>
           LET repeated == /\ "rep" \notin proc[p].failed
                           /\ checkRepeatedQuery(messages, proc[p].conversation,
                                                 proc[p].message, "ok")
           IN  proc[p].result = IF repeated
                                THEN Trigger("repeated_query", ConfRepeated)
                                ELSE Trigger(NoReason, 0)

\* the negative-sentiment lookup failed and the repetition trigger matched
C16_Witness ==
  /\ Decided(1)
  /\ proc[1].failed = {"neg"}
  /\ proc[1].result.reason = "repeated_query"

\* ------------------------------------------------------------------------
\* User messages and agent replies of an escalated conversation
\* ------------------------------------------------------------------------
TalkBuilds == {b \in Builds : b.escalate = "part_003" /\ b.freshdesk /\ b.resend}

InitTalk ==
  /\ build \in TalkBuilds
  /\ EmptyStore
  /\ Idle

\* chat requests one after the other, next to the webhook
NextTalk == ChatNext({1}) \/ EscNext({1}) \/ HookNext

SpecTalk == InitTalk /\ [][NextTalk]_vars

\* the escalated conversations of a session
EscalatedRows(session) ==
  {c \in ConvIds : /\ conversations[c].session_id = session
                   /\ conversations[c].status = "escalated"}

\* GET /api/admin/conversation/[id]: the messages of c by creation time
conversationMessages(msgs, c) ==
  LET OfConversation(m) == m.conversation_id = c
  IN  SelectSeq(msgs, OfConversation)

\* the row a step has just appended to the messages table
Appended == messages'[Len(messages')]

\* the appended row is the last one a read of its conversation returns
ReadLast ==
  conversationMessages(messages', Appended.conversation_id) =
    Append(conversationMessages(messages, Appended.conversation_id), Appended)

\* C17: a user message stored while its session has an escalated
\* conversation is written to that conversation, and an agent reply is
\* written to the conversation that stores its ticket id, so that reading
\* the conversation returns both, in the order of their creation.
C17_SameConversation ==
  [][/\ \A p \in Procs :
          (/\ proc[p].pc = "save"
           /\ Len(messages') = Len(messages) + 1
           /\ EscalatedRows(proc[p].sessionId) # {}) =>
            /\ Appended.conversation_id \in EscalatedRows(proc[p].sessionId)
            /\ ReadLast
     /\ (hook.pc = "insert" /\ Len(messages') = Len(messages) + 1) =>
          /\ Appended.conversation_id \in TicketRows(hook.ticketId)
          /\ ReadLast]_vars

\* ------------------------------------------------------------------------
\* Request validation
\* ------------------------------------------------------------------------
\* chat, feedback and webhook requests handled one at a time, MaxOps of
\* them in all
IntakeOpen ==
  (proc[1].pc = "idle" /\ hook.pc = "idle") => OpsStarted < MaxOps

NextIntake ==
  \/ /\ hook.pc = "idle"
     /\ IntakeOpen
     /\ ChatNext({1}) \/ EscNext({1}) \/ FeedbackNext({1})
  \/ /\ proc[1].pc = "idle"
     /\ IntakeOpen
     /\ HookNext

SpecIntake == InitTalk /\ [][NextIntake]_vars

\* the step in which a handler takes up a request
Received(p) == proc[p].pc = "idle" /\ proc'[p].pc # "idle"

HookReceived == hook.pc = "idle" /\ hook'.pc # "idle" /\ hook'.response # "401"

Rejected(p) ==
  /\ proc'[p].pc = "done"
  /\ proc'[p].response = "400"
  /\ UNCHANGED <<conversations, messages, analytics, tickets, emails, feedback>>

HookRejected ==
  /\ hook'.pc = "done"
  /\ hook'.response = "400"
  /\ UNCHANGED <<conversations, messages, analytics, tickets, emails, feedback>>

\* chat and feedback requests that lack a required field are answered 400
\* by the step that receives them, which writes nothing
ProcRequestsValidated ==
  \A p \in Procs :
    Received(p) =>
      /\ (/\ proc'[p].kind = "chat"
          /\ proc'[p].message = <<>> \/ proc'[p].sessionId = "") => Rejected(p)
      /\ (/\ proc'[p].kind = "feedback"
          /\ \/ proc'[p].msgId = NoMessage
             \/ proc'[p].rating \notin ValidRatings) => Rejected(p)

\* C18: a request with missing required fields is rejected with 400 before
\* any side effect: a chat request without message or sessionId, a webhook
\* call whose payload has no ticket id or no reply body, a feedback request
\* without messageId or with a rating other than 1 and -1.
C18_MissingFieldsRejected ==
  [][/\ ProcRequestsValidated
     /\ (HookReceived /\ (hook'.ticketId = NoTicket \/ hook'.reply # "payload"))
          => HookRejected]_vars

\* C18 as the code has it: a webhook payload without reply body is rejected
\* only when the ticket's Freshdesk conversations give no body either.
C18_MissingAfterFetchRejected ==
  [][/\ ProcRequestsValidated
     /\ (HookReceived /\ (hook'.ticketId = NoTicket \/ hook'.reply = "none"))
          => HookRejected]_vars

\* a call for an issued ticket was refused for its missing reply body, after
\* a chat request and a feedback request were refused as well
C18_Witness ==
  /\ hook.pc = "done"
  /\ hook.response = "400"
  /\ hook.ticketId \in 1..Len(tickets)
  /\ hook.reply = "none"
  /\ served = MaxRequests
  /\ Len(messages) > 0

\* ------------------------------------------------------------------------
\* Feedback records
\* ------------------------------------------------------------------------
\* feedback requests in flight together, on a store with messages
InitFeedback ==
  /\ build \in HookBuilds
  /\ \E n \in 1..MaxOpen : OpenStore(n)
  /\ Idle

NextFeedback == FeedbackNext(Procs) \/ (\E p \in Procs : ProcReset(p))

SpecFeedback == InitFeedback /\ [][NextFeedback]_vars

\* the step in which the submission of p is saved
Submitted(p) == proc[p].pc = "fb_write" /\ proc'[p].response = "200"

\* C19: after any sequence of valid feedback submissions, sequential or
\* concurrent, the store holds at most one feedback record per message id,
\* and a submission that completes leaves that record carrying its rating.
C19_OneRecordPerMessage ==
  [][/\ \A m \in 1..Len(messages) :
          Cardinality(FeedbackRowsIn(feedback', m)) <= 1
     /\ \A p \in Procs :
          Submitted(p) =>
            \E i \in FeedbackRowsIn(feedback', proc[p].msgId) :
              feedback'[i].rating = proc[p].rating]_vars

\* ------------------------------------------------------------------------
\* Polling for agent replies
\* ------------------------------------------------------------------------
PollShapes == {"open", "ticketed", "closed"}

\* agent rows are inserted by the webhook, into handed-over conversations
PollMessageKinds(shapes) ==
  {k \in (DOMAIN shapes) \X {"user", "agent"} :
     k[2] = "agent" => shapes[k[1]] # "open"}

PollMessage(shapes, k) ==
  IF k[2] = "agent"
  THEN NewMessage(k[1], "agent", <<"r">>, "none", TicketOf(shapes, k[1]))
  ELSE NewMessage(k[1], "user", TextPlain, "neutral", NoTicket)

PollStore(shapes, kinds) ==
  /\ conversations = [c \in DOMAIN shapes |-> ShapedRow(shapes[c], TicketOf(shapes, c))]
  /\ messages = [i \in DOMAIN kinds |-> PollMessage(shapes, kinds[i])]
  /\ tickets = ShapedTickets(shapes, Len(shapes))
  /\ analytics = ShapedEvents(shapes, Len(shapes))
  /\ emails = EmptyBag
  /\ feedback = <<>>

InitPoll ==
  /\ build \in {b \in HookBuilds : "agent" \in AcceptedRoles(b)}
  /\ \E n \in 1..(MaxOpen + 1) : \E shapes \in [1..n -> PollShapes] :
       \E k \in 0..MaxOps : \E kinds \in [1..k -> PollMessageKinds(shapes)] :
         PollStore(shapes, kinds)
  /\ Idle

\* "s2" is a session without conversations
PollSessions == Sessions \cup {"s2", ""}

NextPoll ==
  \/ \E s \in PollSessions, a \in 0..Len(messages), k \in Lookups :
       PollStart(1, s, a, k)
  \/ \E k \in Lookups : PollMessages(1, k)
  \/ ProcReset(1)

SpecPoll == InitPoll /\ [][NextPoll]_vars

\* a poll whose store reads succeeded has been answered
Polled(p) ==
  /\ proc[p].kind = "poll"
  /\ proc[p].pc = "done"
  /\ proc[p].sessionId # ""
  /\ proc[p].failed = {}

Returned(p, i) == \E k \in 1..Len(proc[p].body) : proc[p].body[k] = i

\* C20: the poll endpoint, for a session with an escalated or resolved
\* conversation, returns exactly the agent messages of that conversation
\* created strictly after the cursor (all of them without cursor), in
\* ascending order of creation, and isResolved exactly when the
\* conversation is resolved; for a session without such a conversation it
\* returns no messages and isResolved = false.
C20_PollReturnsAgentReplies ==
  \A p \in Procs :
    Polled(p) =>
      LET r == proc[p]
          handedOver == {c \in ConvIds :
                           /\ conversations[c].session_id = r.sessionId
                           /\ conversations[c].status # "active"}
      IN  /\ r.response = "200"
          /\ \A k \in 1..(Len(r.body) - 1) : r.body[k] < r.body[k + 1]
          /\ IF handedOver = {}
             THEN r.body = <<>> /\ ~r.isResolved
             ELSE \E c \in handedOver :
                    /\ r.isResolved <=> conversations[c].status = "resolved"
                    /\ \A i \in 1..Len(messages) :
                         Returned(p, i) <=>
                           /\ messages[i].conversation_id = c
                           /\ messages[i].role = "agent"
                           /\ r.after = NoCursor \/ i > r.after

\* a poll with a cursor returned a reply of a resolved conversation and
\* left out the reply at the cursor and a later user message
C20_Witness ==
  /\ Polled(1)
  /\ proc[1].isResolved
  /\ proc[1].after # NoCursor
  /\ proc[1].body # <<>>
  /\ messages[proc[1].after].role = "agent"
  /\ messages[proc[1].after].conversation_id = proc[1].conversation
  /\ \E i \in (proc[1].after + 1)..Len(messages) :
       /\ messages[i].role = "user"
       /\ messages[i].conversation_id = proc[1].conversation

\* ------------------------------------------------------------------------
\* Conversation sentiment
\* ------------------------------------------------------------------------
\* the step in which the chat handler of p stores the conversation sentiment
StoresRollup(p) ==
  \/ proc[p].bgRollup = "read" /\ proc'[p].bgRollup = "done"
  \/ proc[p].pc = "convsent" /\ proc'[p].pc # "convsent"

\* the labels of the user messages of the conversation of p, the message
\* being handled counted with the label the handler computed for it
LabelsWithCurrent(p) ==
  [i \in {j \in 1..Len(messages) :
            /\ messages[j].conversation_id = proc[p].conversation
            /\ messages[j].role = "user"
            /\ j = proc[p].msgId \/ messages[j].sentiment # "none"} |->
     IF i = proc[p].msgId THEN proc[p].sentiment ELSE messages[i].sentiment]

MoreThanHalf(labels, l) ==
  2 * Cardinality({i \in DOMAIN labels : labels[i] = l}) > Cardinality(DOMAIN labels)

\* C21: the sentiment the chat handler stores on a conversation is the
\* rollup over all labelled user messages of the conversation, the message
\* just handled included: negative if more than half of the labels are
\* negative, else positive if more than half are positive, else neutral.
C21_RollupIncludesCurrent ==
  [][\A p \in Procs :
       StoresRollup(p) =>
         conversations'[proc[p].conversation].sentiment =
           (IF MoreThanHalf(LabelsWithCurrent(p), "negative") THEN "negative"
            ELSE IF MoreThanHalf(LabelsWithCurrent(p), "positive") THEN "positive"
            ELSE "neutral")]_vars

\* ------------------------------------------------------------------------
\* Message rows
\* ------------------------------------------------------------------------
\* chat requests, webhook calls and resolutions one at a time, fewer than
\* MaxOps of them in all
PathsOpen ==
  (proc[1].pc = "idle" /\ hook.pc = "idle") => OpsStarted < MaxOps - 1

NextPaths ==
  \/ /\ hook.pc = "idle"
     /\ PathsOpen
     /\ ChatNext({1}) \/ EscNext({1})
  \/ /\ proc[1].pc = "idle"
     /\ PathsOpen
     /\ HookNext
  \/ /\ proc[1].pc = "idle"
     /\ hook.pc = "idle"
     /\ PathsOpen
     /\ ResolveNext

SpecPaths == InitTalk /\ [][NextPaths]_vars

\* row i is kept with its conversation, role, content and ticket metadata
RowKept(i) ==
  /\ i <= Len(messages')
  /\ messages'[i].conversation_id = messages[i].conversation_id
  /\ messages'[i].role = messages[i].role
  /\ messages'[i].content = messages[i].content
  /\ messages'[i].ticket = messages[i].ticket

\* C22: messages are immutable: once a message row is created, no
\* operation of the chat, escalation, agent-reply or resolution paths
\* modifies its role, content or metadata, or deletes it.
C22_MessagesImmutable ==
  [][\A i \in 1..Len(messages) :
       RowKept(i) /\ messages'[i].sentiment = messages[i].sentiment]_vars

\* C22 as the code has it: the one change made to a stored row is the
\* sentiment label that the chat request which created a user message
\* writes into that message's metadata, once.
C22_OnlyLabelWritten ==
  [][\A i \in 1..Len(messages) :
       /\ RowKept(i)
       /\ messages'[i].sentiment # messages[i].sentiment =>
            /\ messages[i].role = "user"
            /\ messages[i].sentiment = "none"
            /\ \E p \in Procs : proc[p].kind = "chat" /\ proc[p].msgId = i]_vars

\* a labelled user message and an agent reply in a resolved conversation
C22_Witness ==
  \E i, j \in 1..Len(messages) :
    /\ i < j
    /\ messages[i].role = "user" /\ messages[i].sentiment # "none"
    /\ messages[j].role = "agent"
    /\ messages[j].conversation_id = messages[i].conversation_id
    /\ conversations[messages[i].conversation_id].status = "resolved"

\* ------------------------------------------------------------------------
\* Sentiment label and negative-sentiment trigger
\* ------------------------------------------------------------------------
\* the three user messages before the current one are all labelled negative
ThreeNegativePriors(p) ==
  LET priors == Priors(p)
  IN  /\ Len(priors) >= 3
      /\ \A i \in (Len(priors) - 2)..Len(priors) : priors[i].sentiment = "negative"

\* C23: while a chat request handles a user message, the sentiment label of
\* that message is stored before the negative-sentiment trigger reads the
\* window of recent labels, so that a message classified negative after
\* three negative-labelled user messages is decided negative_sentiment.
C23_LabelBeforeTrigger ==
  \A p \in Procs :
    /\ (proc[p].kind = "chat" /\ proc[p].pc = "neg") =>
         messages[proc[p].msgId].sentiment # "none"
    /\ (/\ Decided(p)
        /\ ~ContainsPhrase(proc[p].message)
        /\ proc[p].failed = {}
        /\ ThreeNegativePriors(p)
        /\ messages[proc[p].msgId].sentiment = "negative") =>
         proc[p].result.reason = "negative_sentiment"

\* ------------------------------------------------------------------------
\* Acting on the decision
\* ------------------------------------------------------------------------
EscalatePcs == {"esc_read", "esc_ticket", "esc_update", "esc_analytics", "esc_notify"}

\* the step in which the chat handler of p acts on its decision, the
\* request not failing in that step
ActsOnDecision(p) ==
  /\ proc[p].kind = "chat"
  /\ proc[p].pc = "dispatch"
  /\ proc'[p].pc # "dispatch"
  /\ proc'[p].response # "500"

AssistantRows == {i \in 1..Len(messages) : messages[i].role = "assistant"}

\* C24: the chat endpoint invokes the escalate transition if and only if
\* the decision has shouldEscalate = true; the request is then answered
\* with the escalation object, makes no generation call and stores no
\* assistant message; with shouldEscalate = false the request leaves the
\* status of the conversation unchanged.
C24_EscalateIffDecided ==
  [][\A p \in Procs :
       LET decided == proc[p].result.shouldEscalate
       IN  /\ ActsOnDecision(p) =>
                (proc'[p].pc = "esc_read" <=> decided)
           /\ (proc[p].kind = "chat" /\ proc'[p].pc \in EscalatePcs) => decided
           /\ (proc[p].kind = "chat" /\ decided) =>
                /\ proc'[p].pc # "generate"
                /\ AssistantRows' = AssistantRows
                /\ proc'[p].pc = "done" =>
                     proc'[p].response \in {"escalated", "500"}
           /\ (proc[p].kind = "chat" /\ ~decided /\ ~proc'[p].result.shouldEscalate) =>
                \A c \in ConvIds :
                  conversations'[c].status = conversations[c].status]_vars

\* a second request was escalated by the decision after a first one was
\* answered by generation
C24_Witness ==
  /\ proc[1].kind = "chat"
  /\ proc[1].pc = "done"
  /\ proc[1].response = "escalated"
  /\ proc[1].result.shouldEscalate
  /\ conversations[proc[1].conversation].status = "escalated"
  /\ AssistantRows # {}

\* ------------------------------------------------------------------------
\* The stored agent reply
\* ------------------------------------------------------------------------
\* the webhook step that follows a lookup that found the conversation
HookStores == hook.pc = "insert" /\ hook'.pc # "insert"

\* C25: a webhook call whose ticket id correlates to a conversation appends
\* exactly one message of role agent, carrying the ticket id, to that
\* conversation, a role the message store accepts; the call changes the
\* status of the conversation only for a payload marked resolved or closed,
\* and only after the message was stored.
C25_ReplyAppended ==
  [][/\ HookStores =>
          /\ Len(messages') = Len(messages) + 1
          /\ Appended.role = "agent"
          /\ Appended.role \in AcceptedRoles(build)
          /\ Appended.conversation_id \in TicketRows(hook.ticketId)
          /\ Appended.ticket = hook.ticketId
     /\ (hook.pc # "idle" /\ hook' # hook) =>
          \A c \in ConvIds :
            conversations'[c].status # conversations[c].status =>
              /\ hook.resolved
              /\ c = hook.conversation
              /\ \E i \in 1..Len(messages) :
                   /\ messages[i].role = "agent"
                   /\ messages[i].conversation_id = c]_vars

\* ------------------------------------------------------------------------
\* Repetition trigger: counting
\* ------------------------------------------------------------------------
TextSync == <<"n","e","e","d"," ","h","e","l","p"," ","w","i","t","h"," ","s","e","t","u","p"," ","s","y","n","c">>

\* shares 4 of the 5 long words of TextSync
TextScan == <<"n","e","e","d"," ","h","e","l","p"," ","w","i","t","h"," ","s","e","t","u","p"," ","s","c","a","n">>

\* the long words of TextSync, followed by a short word
TextSyncOk == <<"n","e","e","d"," ","h","e","l","p"," ","w","i","t","h"," ","s","e","t","u","p"," ","s","y","n","c"," ","o","k">>

RepeatRows ==
  {UserRow(TextSync, "neutral"), UserRow(TextScan, "neutral"),
   UserRow(TextSyncOk, "neutral")}

RepeatTexts == {TextSync, TextScan, TextPlain}

SpecRepeat == InitDecide(RepeatRows, MaxHist) /\ [][DecideNext(RepeatTexts)]_vars

\* the tokens longer than 3 characters of a text
Tokens(text) == longWords(normalize(text))

\* tokens of a that occur in b, over the larger token count, exceeds 0.8
OverlapsHighly(a, b) ==
  LET shared == Cardinality({i \in 1..Len(Tokens(a)) :
                               \E j \in 1..Len(Tokens(b)) : Tokens(b)[j] = Tokens(a)[i]})
      larger == IF Len(Tokens(a)) > Len(Tokens(b)) THEN Len(Tokens(a)) ELSE Len(Tokens(b))
  IN  5 * shared > 4 * larger

\* the prior messages the check compares: the 5 most recent ones
ComparedPriors(p) ==
  LET priors == Priors(p)
  IN  IF Len(priors) <= 5 THEN priors
      ELSE SubSeq(priors, Len(priors) - 4, Len(priors))

IdenticalPriors(p) ==
  LET priors == ComparedPriors(p)
      current == normalize(proc[p].message)
  IN  {i \in 1..Len(priors) : normalize(priors[i].content) = current}

SimilarPriors(p) ==
  LET priors == ComparedPriors(p)
  IN  {i \in (1..Len(priors)) \ IdenticalPriors(p) :
         OverlapsHighly(proc[p].message, priors[i].content)}

\* the repetition check was made for a message it is eligible for
RepeatChecked(p) ==
  /\ Decided(p)
  /\ proc[p].failed = {}
  /\ "neg" \notin proc[p].matched
  /\ ~ContainsPhrase(proc[p].message)
  /\ Len(Priors(p)) >= 3
  /\ Len(Tokens(proc[p].message)) >= 3

\* C26: for a current message eligible for the repetition check, the
\* trigger fires exactly when at least 2 prior messages are identical to it
\* after normalization or at least 3 non-identical prior messages have an
\* overlap ratio strictly above 0.8; an identical prior message is not
\* counted as highly similar too.
C26_RepeatCounts ==
  \A p \in Procs :
    RepeatChecked(p) =>
      (proc[p].result.reason = "repeated_query" <=>
         \/ Cardinality(IdenticalPriors(p)) >= 2
         \/ Cardinality(SimilarPriors(p)) >= 3)

\* fired by three highly similar priors, with one identical prior
C26_Witness ==
  /\ RepeatChecked(1)
  /\ Cardinality(IdenticalPriors(1)) = 1
  /\ Cardinality(SimilarPriors(1)) = 3
  /\ proc[1].result.reason = "repeated_query"

\* ------------------------------------------------------------------------
\* Repetition trigger: the window
\* ------------------------------------------------------------------------
\* histories of up to MaxHist + 1 user messages
WindowRows == {UserRow(TextSync, "neutral"), UserRow(TextScan, "neutral")}

WindowTexts == {TextSync, TextPlain}

SpecWindow == InitDecide(WindowRows, MaxHist + 1) /\ [][DecideNext(WindowTexts)]_vars

\* the n most recent user messages before the current one
LastPriors(p, n) ==
  LET priors == Priors(p)
  IN  IF Len(priors) <= n THEN priors
      ELSE SubSeq(priors, Len(priors) - n + 1, Len(priors))

\* the repetition rule applied to the n most recent prior messages
RepeatsAmong(p, n) ==
  LET priors == LastPriors(p, n)
      current == normalize(proc[p].message)
      identical == {i \in 1..Len(priors) : normalize(priors[i].content) = current}
      similar == {i \in (1..Len(priors)) \ identical :
                    OverlapsHighly(proc[p].message, priors[i].content)}
  IN  Cardinality(identical) >= 2 \/ Cardinality(similar) >= 3

\* the repetition trigger was evaluated for p's message and answered
WindowRead(p) ==
  /\ Decided(p)
  /\ proc[p].failed = {}
  /\ "neg" \notin proc[p].matched
  /\ ~ContainsPhrase(proc[p].message)

\* C27: the repetition trigger compares the just-persisted user message
\* with the 6 most recent user messages before it, itself excluded, and
\* reports no match when the conversation holds fewer than 4 user messages.
C27_WindowOfSix ==
  \A p \in Procs :
    WindowRead(p) =>
      /\ Len(Priors(p)) + 1 < 4 => proc[p].result.reason # "repeated_query"
      /\ (Len(Priors(p)) + 1 >= 4 /\ Len(Tokens(proc[p].message)) >= 3) =>
           (proc[p].result.reason = "repeated_query" <=> RepeatsAmong(p, 6))

\* C27 as the code has it: the window of 6 rows holds the current message,
\* so the messages compared are the 5 most recent ones before it.
C27_WindowOfFive ==
  \A p \in Procs :
    WindowRead(p) =>
      /\ Len(Priors(p)) + 1 < 4 => proc[p].result.reason # "repeated_query"
      /\ (Len(Priors(p)) + 1 >= 4 /\ Len(Tokens(proc[p].message)) >= 3) =>
           (proc[p].result.reason = "repeated_query" <=> RepeatsAmong(p, 5))

\* the sixth message back is the second one identical to the current one:
\* it is not compared
C27_Witness ==
  /\ WindowRead(1)
  /\ Len(Priors(1)) = 6
  /\ RepeatsAmong(1, 6)
  /\ ~RepeatsAmong(1, 5)
  /\ proc[1].result.reason # "repeated_query"

\* ------------------------------------------------------------------------
\* Decision engine: the shape of the decision
\* ------------------------------------------------------------------------
NoEscalation == [shouldEscalate |-> FALSE, reason |-> NoReason, confidence |-> 0]

ConfidenceOf(reason) ==
  IF reason = "explicit_request" THEN ConfExplicit
  ELSE IF reason = "negative_sentiment" THEN ConfNegative
  ELSE ConfRepeated

\* C28: the decision is {shouldEscalate: false, confidence: 0} without a
\* reason exactly when no trigger matched, as for a single message without
\* an escalation phrase in a new conversation; otherwise shouldEscalate is
\* true with the matching trigger's reason and its confidence 1.0, 0.9 or 0.85.
C28_DecisionShape ==
  \A p \in Procs :
    Decided(p) =>
      LET result == proc[p].result
      IN  /\ proc[p].matched = {} <=> result = NoEscalation
          /\ (Len(Priors(p)) = 0 /\ ~ContainsPhrase(proc[p].message)) =>
               result = NoEscalation
          /\ proc[p].matched # {} =>
               /\ result.shouldEscalate
               /\ result.reason \in Reasons
               /\ result.confidence = ConfidenceOf(result.reason)
               /\ result.reason = "explicit_request" => "explicit" \in proc[p].matched
               /\ result.reason = "negative_sentiment" => "neg" \in proc[p].matched
               /\ result.reason = "repeated_query" => "rep" \in proc[p].matched

\* the first message of a conversation, without a phrase, is not escalated
C28_Witness ==
  /\ Decided(1)
  /\ Len(Priors(1)) = 0
  /\ ~ContainsPhrase(proc[1].message)
  /\ proc[1].matched = {}
  /\ proc[1].result = NoEscalation

\* ------------------------------------------------------------------------
\* Resolution: what it leaves of the conversation's metadata
\* ------------------------------------------------------------------------
\* the step resolves conversation c
Resolves(c) ==
  /\ conversations[c].status # "resolved"
  /\ conversations'[c].status = "resolved"

\* every key of c's metadata is still there with its value after the step
MetadataKept(c) ==
  \A k \in DOMAIN conversations[c].metadata :
    /\ k \in DOMAIN conversations'[c].metadata
    /\ conversations'[c].metadata[k] = conversations[c].metadata[k]

\* C30: every transition to resolved, by the webhook on a resolved or closed
\* ticket, by the admin endpoint or by the staleness sweep, keeps the keys
\* the conversation's metadata already had (escalation reason, ticket id)
\* and only adds its own stamps.
C30_ResolveKeepsMetadata ==
  [][\A c \in ConvIds : Resolves(c) => MetadataKept(c)]_vars

\* ------------------------------------------------------------------------
\* Delivery of agent replies to the session that asked
\* ------------------------------------------------------------------------
\* an escalated conversation with its ticket; then chat requests, webhook
\* calls, resolutions and polls of the session, one at a time
InitDeliver ==
  /\ build \in TalkBuilds
  /\ ShapedStore(<<"ticketed">>)
  /\ Idle

NextDeliver ==
  \/ /\ hook.pc = "idle"
     /\ IntakeOpen
     /\ ChatNext({1}) \/ EscNext({1})
  \/ /\ proc[1].pc = "idle"
     /\ IntakeOpen
     /\ HookNext
  \/ /\ proc[1].pc = "idle"
     /\ hook.pc = "idle"
     /\ IntakeOpen
     /\ ResolveNext
  \/ /\ hook.pc = "idle"
     /\ IntakeOpen
     /\ NextPoll

SpecDeliver == InitDeliver /\ [][NextDeliver]_vars

\* message i is an agent reply stored for a conversation of the session
ReplyOf(i, sessionId) ==
  /\ messages[i].role = "agent"
  /\ conversations[messages[i].conversation_id].session_id = sessionId

\* C29: an agent reply stored by the webhook for a conversation of session
\* s is delivered: a poll for s whose cursor is earlier than the reply's
\* creation returns it, whatever chat messages, escalations or resolutions
\* of s came between the reply and the poll.
C29_ReplyDelivered ==
  [][\A p \in Procs :
       (~Polled(p) /\ Polled(p)') =>
         \A i \in 1..Len(messages) :
           (/\ ReplyOf(i, proc'[p].sessionId)
            /\ proc'[p].after = NoCursor \/ proc'[p].after < i) =>
             Returned(p, i)']_vars

====
